---- MODULE Spec2Model ----
(***************************************************************************)
(* Model of the Smart Safe Room backend (src/index.js): the pure helper    *)
(* computeAdvancedSignals and the POST /analyze-room handler with its two  *)
(* awaited upstream calls.                                                 *)
(*                                                                         *)
(* JavaScript values are tagged records [t, v]: t is the JS type, v the    *)
(* payload (0 where the type has none).  A JS string is a sequence: of     *)
(* characters where the code inspects characters (labels, base64 text),    *)
(* of lexemes for the completion text, of text pieces elsewhere.           *)
(***************************************************************************)
EXTENDS Integers, Sequences, FiniteSets, TLC

\* ------------------------------------------------------------------------
\* JavaScript values
\* ------------------------------------------------------------------------
Undef == [t |-> "undef", v |-> 0]
Null == [t |-> "null", v |-> 0]
Num(n) == [t |-> "num", v |-> n]
Str(s) == [t |-> "str", v |-> s]
Obj(f) == [t |-> "obj", v |-> f]
Arr(s) == [t |-> "arr", v |-> s]

\* ToBoolean of the values the code tests with ||, ! and ?.
Truthy(x) ==
  CASE x.t = "undef" -> FALSE
    [] x.t = "null" -> FALSE
    [] x.t = "num" -> x.v # 0
    [] x.t = "str" -> x.v # <<>>
    [] x.t = "bool" -> x.v
    [] OTHER -> TRUE

\* a || b
OrElse(a, b) == IF Truthy(a) THEN a ELSE b

\* ------------------------------------------------------------------------
\* Bounds and input sets
\* ------------------------------------------------------------------------
MaxObjs == 3

sPerson == <<"p", "e", "r", "s", "o", "n">>
sPersonSitting == <<"P", "E", "R", "s", "o", "n", " ", "s", "i", "t">>
sHuman == <<"h", "u", "m", "a", "n">>
sPerSon == <<"p", "e", "r", " ", "s", "o", "n">>

Rect(w, h) == Obj([w |-> w, h |-> h])
Detected(label, rect) == Obj([object |-> label, rectangle |-> rect])

\* Rectangles: 28/20 = 1.4 exceeds the threshold, 27/20 = 1.35 does not,
\* 2/(0 -> 1) = 2 exceeds it, (absent -> 0)/(absent -> 1) = 0 does not.
RectWide == Rect(Num(28), Num(20))
RectEdge == Rect(Num(27), Num(20))
RectZeroH == Rect(Num(2), Num(0))
RectNoH == Rect(Num(2), Undef)
RectNoW == Rect(Undef, Num(20))

WellFormedObjects ==
  { Detected(Str(sPerson), r) : r \in {RectWide, RectEdge, RectZeroH, RectNoH, RectNoW, Undef} }
    \cup { Detected(Str(sPersonSitting), r) : r \in {RectWide, RectEdge} }
    \cup { Detected(Str(sHuman), r) : r \in {RectWide, Undef} }
    \cup { Detected(Str(sPerSon), RectWide), Detected(Undef, RectWide) }

\* Objects whose label is present but is not text.
MalformedObjects == { Detected(Num(7), RectWide) }

SampleObjects == WellFormedObjects \cup MalformedObjects

RECURSIVE SeqsUpTo(_, _)
SeqsUpTo(S, n) ==
  IF n = 0 THEN { <<>> }
  ELSE LET shorter == SeqsUpTo(S, n - 1)
       IN shorter \cup { Append(q, x) : q \in { s \in shorter : Len(s) = n - 1 }, x \in S }

SignalInputs == { Undef } \cup { Arr(q) : q \in SeqsUpTo(SampleObjects, MaxObjs) }

\* ------------------------------------------------------------------------
\* computeAdvancedSignals (src/index.js 19-47)
\* ------------------------------------------------------------------------
\* String.prototype.toLowerCase on the characters the labels use.
ToLowerChar(c) ==
  CASE c = "P" -> "p"
    [] c = "E" -> "e"
    [] c = "R" -> "r"
    [] c = "S" -> "s"
    [] c = "O" -> "o"
    [] c = "N" -> "n"
    [] OTHER -> c

toLowerCase(s) == [i \in 1..Len(s) |-> ToLowerChar(s[i])]

\* String.prototype.includes
includes(s, sub) ==
  \E i \in 0..(Len(s) - Len(sub)) : SubSeq(s, i + 1, i + Len(sub)) = sub

\* A result of evaluating JS code: a returned value or a thrown TypeError.
Return(x) == [kind |-> "return", value |-> x]
Throw == [kind |-> "throw", value |-> "TypeError"]

\* (o.object || "") : the receiver of .toLowerCase()
LabelReceiver(o) == OrElse(o.v.object, Str(<<>>))

\* .toLowerCase exists on strings only; on any other (truthy) value the call
\* throws "toLowerCase is not a function".
LabelThrows(o) == LabelReceiver(o).t # "str"

\* A filter that compares the label without lowering its case.
IsPerson_CaseSensitive(o) == includes(LabelReceiver(o).v, sPerson)

\* the filter predicate of line 21-23
IsPerson(o) == includes(toLowerCase(LabelReceiver(o).v), sPerson)

\* w / h > 1.35 on integers, h # 0
AspectExceeds(w, h) ==
  IF h > 0 THEN 100 * w > 135 * h ELSE 100 * w < 135 * h

\* body of the for loop for one person, lines 30-36
PersonLying(p) ==
  LET rect == OrElse(p.v.rectangle, Obj([w |-> Undef, h |-> Undef]))
      w == OrElse(rect.v.w, Num(0))
      h == OrElse(rect.v.h, Num(1))
  IN AspectExceeds(w.v, h.v)

\* A loop that decides on the first person and never looks at the others.
FallLoop_FirstOnly(persons, i) ==
  IF i > Len(persons) THEN FALSE ELSE PersonLying(persons[i])

\* for (const p of persons) { ... if (...) { fallRisk = true; break; } }
RECURSIVE FallLoop(_, _)
FallLoop(persons, i) ==
  IF i > Len(persons) THEN FALSE
  ELSE IF PersonLying(persons[i]) THEN TRUE
  ELSE FallLoop(persons, i + 1)

computeAdvancedSignals(visionObjects) ==
  LET list == OrElse(visionObjects, Arr(<<>>))
  IN IF \E i \in 1..Len(list.v) : LabelThrows(list.v[i]) THEN Throw
     ELSE LET persons == SelectSeq(list.v, IsPerson)
          IN Return([peopleCount |-> Len(persons),
                     fallRisk |-> FallLoop(persons, 1),
                     voiceStress |-> FALSE])

\* ------------------------------------------------------------------------
\* POST /analyze-room (src/index.js 59-185): helpers
\* ------------------------------------------------------------------------
NumRequests == 2
Requests == 1..NumRequests

\* x?.k : undefined when x is undefined or null
OptGet(x, k) == IF x.t \in {"undef", "null"} THEN Undef ELSE x.v[k]

\* x?.[0]
OptFirst(x) ==
  IF x.t \in {"undef", "null"} THEN Undef
  ELSE IF Len(x.v) = 0 THEN Undef ELSE x.v[1]

\* A check for an absent field only, which lets an empty string through.
MissingImage_OnlyUndefined(imageBase64) == imageBase64.t = "undef"

\* if (!imageBase64)
MissingImage(imageBase64) == ~Truthy(imageBase64)

\* The base64 alphabet, on the characters the payloads use ("=" pads).
B64Value(c) ==
  CASE c = "a" -> 26
    [] c = "G" -> 6
    [] c = "k" -> 36
    [] c = "=" -> 0

\* One group of four base64 characters is three bytes, fewer when padded.
B64Group(g) ==
  LET n == ((B64Value(g[1]) * 64 + B64Value(g[2])) * 64 + B64Value(g[3])) * 64 + B64Value(g[4])
      bytes == << n \div 65536, (n \div 256) % 256, n % 256 >>
      pad == IF g[3] = "=" THEN 2 ELSE IF g[4] = "=" THEN 1 ELSE 0
  IN SubSeq(bytes, 1, 3 - pad)

RECURSIVE B64Decode(_)
B64Decode(s) ==
  IF Len(s) < 4 THEN <<>>
  ELSE B64Group(SubSeq(s, 1, 4)) \o B64Decode(SubSeq(s, 5, Len(s)))

\* Buffer.from(imageBase64, 'base64'): a TypeError unless given a string
BufferFrom(imageBase64) ==
  IF imageBase64.t = "str" THEN Return(B64Decode(imageBase64.v)) ELSE Throw

\* vision.description?.captions?.[0]?.text || 'No caption available'
captionOf(vision) ==
  OrElse(OptGet(OptFirst(OptGet(OptGet(vision, "description"), "captions")), "text"),
         Str(<<"No caption available">>))

\* (vision.tags || []).map((t) => t.name)
tagsOf(vision) ==
  LET list == OrElse(OptGet(vision, "tags"), Arr(<<>>))
  IN Arr([i \in 1..Len(list.v) |-> list.v[i].v.name])

\* Array.prototype.join on an array of strings
RECURSIVE join(_, _)
join(names, sep) ==
  IF Len(names) = 0 THEN <<>>
  ELSE IF Len(names) = 1 THEN names[1].v
  ELSE names[1].v \o <<sep>> \o join(Tail(names), sep)

\* Number to decimal text, as template interpolation does
Digit(d) ==
  CASE d = 0 -> "0" [] d = 1 -> "1" [] d = 2 -> "2" [] d = 3 -> "3" [] d = 4 -> "4"
    [] d = 5 -> "5" [] d = 6 -> "6" [] d = 7 -> "7" [] d = 8 -> "8" [] d = 9 -> "9"

RECURSIVE NumberToString(_)
NumberToString(n) ==
  IF n < 10 THEN <<Digit(n)>> ELSE NumberToString(n \div 10) \o <<Digit(n % 10)>>

\* the template literal of lines 97-99
sceneDescriptionOf(caption, peopleCount, tags) ==
  Str(<<"Caption: ">> \o caption.v \o <<"\nPeople detected: ">>
        \o NumberToString(peopleCount) \o <<"\nTags: ">> \o join(tags.v, ", "))

\* A prompt that leaves the scene description out.
userPrompt_NoScene(sceneDescription) ==
  Str(<<"You are a safety assistant monitoring a room using camera snapshots. Here is the machine vision description of the scene:">>
        \o <<"Decide: status, reason, action. Return ONLY valid JSON">>)

\* the template literal of lines 109-123
userPrompt(sceneDescription) ==
  Str(<<"You are a safety assistant monitoring a room using camera snapshots. Here is the machine vision description of the scene:">>
        \o sceneDescription.v
        \o <<"Decide: status, reason, action. Return ONLY valid JSON">>)

\* the request body of the chat-completion call, lines 127-134
openaiRequest(sceneDescription) ==
  [messages |-> << [role |-> "system", content |-> Str(<<"You are a concise safety reasoning assistant.">>)],
                   [role |-> "user", content |-> userPrompt(sceneDescription)] >>,
   temperature |-> "0.2",
   max_tokens |-> 300]

\* the request of the vision call, lines 72-81
visionRequest(imageBuffer) ==
  [url |-> "/vision/v3.2/analyze?visualFeatures=Description,Tags,Objects", data |-> imageBuffer]

\* ------------------------------------------------------------------------
\* JSON.parse on a lexed text.  A lexeme is [t, v]: punctuation, a literal
\* word, a number, a quoted string (v is its content) or any other word.
\* ------------------------------------------------------------------------
P(c) == [t |-> "punct", v |-> c]
W(w) == [t |-> "word", v |-> w]
N(n) == [t |-> "num", v |-> n]
Q(s) == [t |-> "str", v |-> s]

Bool(b) == [t |-> "bool", v |-> b]

ParseFail == [ok |-> FALSE, val |-> Undef, next |-> 0]
ParseOk(val, next) == [ok |-> TRUE, val |-> val, next |-> next]

IsPunct(toks, i, c) == i <= Len(toks) /\ toks[i].t = "punct" /\ toks[i].v = c

\* obj[key] = val, a later duplicate key replacing an earlier one
PutMember(f, key, val) ==
  [x \in DOMAIN f \cup {key} |-> IF x = key THEN val ELSE f[x]]

RECURSIVE ParseValue(_, _)
RECURSIVE ParseMembers(_, _, _)
RECURSIVE ParseElements(_, _, _)

ParseValue(toks, i) ==
  IF i > Len(toks) THEN ParseFail
  ELSE LET tok == toks[i]
       IN CASE tok.t = "num" -> ParseOk(Num(tok.v), i + 1)
            [] tok.t = "str" -> ParseOk(Str(<<tok.v>>), i + 1)
            [] tok.t = "word" ->
                 IF tok.v = "null" THEN ParseOk(Null, i + 1)
                 ELSE IF tok.v = "true" THEN ParseOk(Bool(TRUE), i + 1)
                 ELSE IF tok.v = "false" THEN ParseOk(Bool(FALSE), i + 1)
                 ELSE ParseFail
            [] tok.t = "punct" ->
                 IF tok.v = "{" THEN
                   IF IsPunct(toks, i + 1, "}") THEN ParseOk(Obj(<<>>), i + 2)
                   ELSE ParseMembers(toks, i + 1, <<>>)
                 ELSE IF tok.v = "[" THEN
                   IF IsPunct(toks, i + 1, "]") THEN ParseOk(Arr(<<>>), i + 2)
                   ELSE ParseElements(toks, i + 1, <<>>)
                 ELSE ParseFail

ParseMembers(toks, i, acc) ==
  IF i + 1 <= Len(toks) /\ toks[i].t = "str" /\ IsPunct(toks, i + 1, ":") THEN
    LET r == ParseValue(toks, i + 2)
    IN IF ~r.ok THEN ParseFail
       ELSE LET acc2 == PutMember(acc, toks[i].v, r.val)
            IN IF IsPunct(toks, r.next, ",") THEN ParseMembers(toks, r.next + 1, acc2)
               ELSE IF IsPunct(toks, r.next, "}") THEN ParseOk(Obj(acc2), r.next + 1)
               ELSE ParseFail
  ELSE ParseFail

ParseElements(toks, i, acc) ==
  LET r == ParseValue(toks, i)
  IN IF ~r.ok THEN ParseFail
     ELSE LET acc2 == Append(acc, r.val)
          IN IF IsPunct(toks, r.next, ",") THEN ParseElements(toks, r.next + 1, acc2)
             ELSE IF IsPunct(toks, r.next, "]") THEN ParseOk(Arr(acc2), r.next + 1)
             ELSE ParseFail

\* JSON.parse first converts its argument to a string: null reads "null".
ToText(message) == IF message.t = "null" THEN <<W("null")>> ELSE message.v

\* A parser that stops at the end of the first value and ignores the rest.
JSONParse_Lenient(message) ==
  LET r == ParseValue(ToText(message), 1)
  IN IF r.ok THEN Return(r.val) ELSE Throw

\* JSON.parse(message): the value, or a SyntaxError
JSONParse(message) ==
  LET text == ToText(message)
      r == ParseValue(text, 1)
  IN IF r.ok /\ r.next = Len(text) + 1 THEN Return(r.val) ELSE Throw

\* the catch block of lines 148-155
parseFallback(message) ==
  Obj([status |-> Str(<<"WARNING">>),
       reason |-> Str(<<"Could not parse model JSON response.">>),
       action |-> Str(<<"Show warning and log for review.">>),
       rawResponse |-> message])

\* lines 145-155
aiDecisionOf(message) ==
  LET parsed == JSONParse(message)
  IN IF parsed.kind = "return" THEN parsed.value ELSE parseFallback(message)

\* A response that passes the whole signals object on.
responseSignals_Whole(signals) == signals

\* the public signal subset, lines 172-175
responseSignals(signals) ==
  [fallRisk |-> signals.fallRisk, voiceStress |-> signals.voiceStress]

\* res.json({...}), lines 160-176
successResponse(frame, aiDecision) ==
  [status |-> 200,
   body |-> [sceneDescription |-> frame.sceneDescription,
             caption |-> frame.caption,
             tags |-> frame.tags,
             peopleCount |-> frame.peopleCount,
             aiDecision |-> aiDecision,
             signals |-> responseSignals(frame.signals)]]

\* res.status(400).json(...), line 64
badRequestResponse ==
  [status |-> 400, body |-> [error |-> Str(<<"imageBase64 is required">>)]]

\* An error caught by the handler: axios errors carry the upstream's reply
\* in response.data when the upstream answered; others have a message only.
TransportError == [response |-> Undef, message |-> Str(<<"connect ECONNREFUSED">>)]
StatusError == [response |-> Obj([data |-> Obj([error |-> Str(<<"quota exceeded">>)])]),
                message |-> Str(<<"Request failed with status code 429">>)]
TypeError == [response |-> Undef, message |-> Str(<<"TypeError">>)]

\* A catch block that reports the failure without its details.
catchResponse_NoDetails(err) ==
  [status |-> 500, body |-> [error |-> Str(<<"Analysis failed">>)]]

\* the catch block of lines 178-184
catchResponse(err) ==
  [status |-> 500,
   body |-> [error |-> Str(<<"Analysis failed">>),
             details |-> OrElse(OptGet(err.response, "data"), err.message)]]

\* ------------------------------------------------------------------------
\* Inputs of the handler: request bodies and upstream replies
\* ------------------------------------------------------------------------
ImagePayloads ==
  { Undef, Null, Str(<<>>), Num(5), Str(<<"a", "G", "k", "=">>) }

Tag(name) == Obj([name |-> Str(<<name>>)])
Captioned(text) == Obj([captions |-> Arr(<<Obj([text |-> Str(<<text>>)])>>)])
VisionData(description, tags, objects) ==
  Obj([description |-> description, tags |-> tags, objects |-> objects])

VFloor ==
  VisionData(Captioned("A person lying on the floor"), Arr(<<Tag("floor"), Tag("indoor")>>),
             Arr(<<Detected(Str(sPerson), Rect(Num(200), Num(80)))>>))
VBare == VisionData(Undef, Undef, Undef)
VSeated ==
  VisionData(Captioned("people in a room"), Arr(<<Tag("indoor")>>),
             Arr(<<Detected(Str(sHuman), RectWide), Detected(Str(sPersonSitting), RectEdge)>>))
VLast ==
  VisionData(Obj([captions |-> Arr(<<>>)]), Arr(<<>>),
             Arr(<<Detected(Str(sPerson), RectEdge), Detected(Str(sPerson), RectWide)>>))
VNoPerson ==
  VisionData(Undef, Arr(<<Tag("sofa")>>),
             Arr(<<Detected(Str(sHuman), RectWide), Detected(Undef, RectZeroH)>>))
VMalformed ==
  VisionData(Undef, Undef, Arr(<<Detected(Num(7), RectWide)>>))

VisionResults == { VFloor, VBare, VSeated, VLast, VNoPerson, VMalformed }

TNotJson == <<W("not"), W("json")>>
TTrailing == <<P("{"), Q("status"), P(":"), Q("EMERGENCY"), P("}"), W("Hope"), W("this"), W("helps")>>
TTruncated == <<P("{"), Q("status"), P(":"), Q("EMERGENCY")>>
TNull == <<W("null")>>
TNumber == <<N(42)>>
TString == <<Q("hello")>>
TDecision ==
  <<P("{"), Q("status"), P(":"), Q("NORMAL"), P(","), Q("reason"), P(":"), Q("Room is calm."),
    P(","), Q("action"), P(":"), Q("Keep monitoring."), P("}")>>
TOtherStatus == <<P("{"), Q("status"), P(":"), Q("DANGER"), P("}")>>
TNoStatus == <<P("{"), Q("reason"), P(":"), Q("unclear"), P("}")>>

\* The texts above that are not JSON, and those that are.
NotJsonTexts == { TNotJson, TTrailing, TTruncated }
JsonTexts == { TNull, TNumber, TString, TDecision, TOtherStatus, TNoStatus }

Completion(content) ==
  Obj([choices |-> Arr(<<Obj([message |-> Obj([content |-> content])])>>)])

CompletionResults ==
  { Completion(Str(text)) : text \in NotJsonTexts \cup JsonTexts }
    \cup { Completion(Null), Obj([choices |-> Arr(<<>>)]) }

UpstreamErrors == { TransportError, StatusError }

\* ------------------------------------------------------------------------
\* State
\* ------------------------------------------------------------------------
VARIABLES
  pc,           \* per request: "idle", "awaitVision", "awaitOpenAI", "done"
  reqBody,      \* per request: req.body.imageBase64
  frames,       \* per activation: the consts that live across the second await
  visionCalls,  \* per request: the requests sent to the vision API
  openaiCalls,  \* per request: the requests sent to the language-model API
  visionReply,  \* per request: how the vision call settled
  openaiReply,  \* per request: how the language-model call settled
  response,     \* per request: what res sent
  sigInput,     \* the argument of a direct call of computeAdvancedSignals
  sigResult     \* its result

handlerVars ==
  <<pc, reqBody, frames, visionCalls, openaiCalls, visionReply, openaiReply, response>>
signalVars == <<sigInput, sigResult>>
vars == <<handlerVars, signalVars>>

NotCalled == [kind |-> "none", value |-> 0]
Pending == [kind |-> "none", value |-> 0]
Resolved(data) == [kind |-> "ok", value |-> data]
Rejected(err) == [kind |-> "fail", value |-> err]
NoResponse == [status |-> 0, body |-> 0]
NoFrame ==
  [caption |-> Undef, tags |-> Undef, signals |-> Undef, peopleCount |-> Undef,
   sceneDescription |-> Undef]

\* Consts hoisted to module scope: every invocation writes the same slot.
Frame_Shared(r) == 1

\* Each invocation of the async handler has its own scope for its consts.
Frame(r) == r

InitHandler ==
  /\ pc = [r \in Requests |-> "idle"]
  /\ reqBody = [r \in Requests |-> Undef]
  /\ frames = [r \in Requests |-> NoFrame]
  /\ visionCalls = [r \in Requests |-> <<>>]
  /\ openaiCalls = [r \in Requests |-> <<>>]
  /\ visionReply = [r \in Requests |-> Pending]
  /\ openaiReply = [r \in Requests |-> Pending]
  /\ response = [r \in Requests |-> NoResponse]

Init ==
  /\ InitHandler
  /\ sigInput = Undef
  /\ sigResult = NotCalled

\* The handler ends by sending resp.
Finish(r, resp) ==
  /\ pc' = [pc EXCEPT ![r] = "done"]
  /\ response' = [response EXCEPT ![r] = resp]

\* lines 59-81: from the arrival of the request to the first await
Receive(r) ==
  /\ pc[r] = "idle"
  /\ \E imageBase64 \in ImagePayloads :
       /\ reqBody' = [reqBody EXCEPT ![r] = imageBase64]
       /\ IF MissingImage(imageBase64) THEN
            /\ Finish(r, badRequestResponse)
            /\ UNCHANGED visionCalls
          ELSE
            LET imageBuffer == BufferFrom(imageBase64)
            IN IF imageBuffer.kind = "throw" THEN
                 /\ Finish(r, catchResponse(TypeError))
                 /\ UNCHANGED visionCalls
               ELSE
                 /\ visionCalls' = [visionCalls EXCEPT ![r] = Append(@, visionRequest(imageBuffer.value))]
                 /\ pc' = [pc EXCEPT ![r] = "awaitVision"]
                 /\ UNCHANGED response
  /\ UNCHANGED <<frames, openaiCalls, visionReply, openaiReply, signalVars>>

\* lines 83-141: the vision call returned; up to the second await
VisionResolves(r) ==
  /\ pc[r] = "awaitVision"
  /\ \E vision \in VisionResults :
       /\ visionReply' = [visionReply EXCEPT ![r] = Resolved(vision)]
       /\ LET caption == captionOf(vision)
              tags == tagsOf(vision)
              signals == computeAdvancedSignals(OptGet(vision, "objects"))
          IN IF signals.kind = "throw" THEN
               /\ Finish(r, catchResponse(TypeError))
               /\ UNCHANGED <<frames, openaiCalls>>
             ELSE
               LET peopleCount == signals.value.peopleCount
                   sceneDescription == sceneDescriptionOf(caption, peopleCount, tags)
               IN /\ frames' = [frames EXCEPT ![Frame(r)] =
                                  [caption |-> caption, tags |-> tags, signals |-> signals.value,
                                   peopleCount |-> peopleCount,
                                   sceneDescription |-> sceneDescription]]
                  /\ openaiCalls' = [openaiCalls EXCEPT ![r] =
                                       Append(@, openaiRequest(sceneDescription))]
                  /\ pc' = [pc EXCEPT ![r] = "awaitOpenAI"]
                  /\ UNCHANGED response
  /\ UNCHANGED <<reqBody, visionCalls, openaiReply, signalVars>>

\* lines 76 and 178-184: the vision call failed
VisionRejects(r) ==
  /\ pc[r] = "awaitVision"
  /\ \E err \in UpstreamErrors :
       /\ visionReply' = [visionReply EXCEPT ![r] = Rejected(err)]
       /\ Finish(r, catchResponse(err))
  /\ UNCHANGED <<reqBody, frames, visionCalls, openaiCalls, openaiReply, signalVars>>

\* lines 143-176: the language-model call returned
OpenAIResolves(r) ==
  /\ pc[r] = "awaitOpenAI"
  /\ \E data \in CompletionResults :
       /\ openaiReply' = [openaiReply EXCEPT ![r] = Resolved(data)]
       /\ IF Len(data.v.choices.v) = 0 THEN
            Finish(r, catchResponse(TypeError))
          ELSE
            LET message == data.v.choices.v[1].v.message.v.content
            IN Finish(r, successResponse(frames[Frame(r)], aiDecisionOf(message)))
  /\ UNCHANGED <<reqBody, frames, visionCalls, openaiCalls, visionReply, signalVars>>

\* lines 125 and 178-184: the language-model call failed
OpenAIRejects(r) ==
  /\ pc[r] = "awaitOpenAI"
  /\ \E err \in UpstreamErrors :
       /\ openaiReply' = [openaiReply EXCEPT ![r] = Rejected(err)]
       /\ Finish(r, catchResponse(err))
  /\ UNCHANGED <<reqBody, frames, visionCalls, openaiCalls, visionReply, signalVars>>

Next ==
  \E r \in Requests :
    \/ Receive(r)
    \/ VisionResolves(r)
    \/ VisionRejects(r)
    \/ OpenAIResolves(r)
    \/ OpenAIRejects(r)

Spec == Init /\ [][Next]_vars

\* ------------------------------------------------------------------------
\* computeAdvancedSignals called directly, on every bounded input
\* ------------------------------------------------------------------------
InitSignals ==
  /\ InitHandler
  /\ sigInput \in SignalInputs
  /\ sigResult = NotCalled

CallComputeAdvancedSignals ==
  /\ sigResult.kind = "none"
  /\ sigResult' = computeAdvancedSignals(sigInput)
  /\ UNCHANGED <<sigInput, handlerVars>>

NextSignals == CallComputeAdvancedSignals

SpecSignals == InitSignals /\ [][NextSignals]_vars

\* ------------------------------------------------------------------------
\* Properties
\* ------------------------------------------------------------------------
Sent(r, code) == pc[r] = "done" /\ response[r].status = code

\* the completion text a request received, when it received one
HasContent(r) ==
  /\ openaiReply[r].kind = "ok"
  /\ Len(openaiReply[r].value.v.choices.v) > 0
ContentOf(r) == openaiReply[r].value.v.choices.v[1].v.message.v.content

\* the detected-object list a request received (empty when absent)
ObjectsOf(r) ==
  LET objects == visionReply[r].value.v.objects
  IN IF objects.t = "arr" THEN objects.v ELSE <<>>

\* Labels that contain "person" when case is ignored, among the labels used.
PersonLabels == { sPerson, sPersonSitting }
LabelledPerson(o) == o.v.object.t = "str" /\ o.v.object.v \in PersonLabels

\* Width (0 when absent) over height (1 when zero or absent) above 1.35.
WidthOf(o) ==
  IF o.v.rectangle.t = "obj" /\ o.v.rectangle.v.w.t = "num" THEN o.v.rectangle.v.w.v ELSE 0
HeightOf(o) ==
  IF o.v.rectangle.t = "obj" /\ o.v.rectangle.v.h.t = "num" /\ o.v.rectangle.v.h.v # 0
  THEN o.v.rectangle.v.h.v ELSE 1
WiderThanTall(o) == 100 * WidthOf(o) > 135 * HeightOf(o)

\* C1: a request whose imageBase64 is missing or empty is answered 400 with
\* an {error} body, and neither upstream API is called for it.
C1_MissingImageRejected ==
  \A r \in Requests :
    (pc[r] # "idle" /\ (reqBody[r].t = "undef" \/ (reqBody[r].t = "str" /\ reqBody[r].v = <<>>)))
      => /\ Sent(r, 400)
         /\ DOMAIN response[r].body = {"error"}
         /\ visionCalls[r] = <<>>
         /\ openaiCalls[r] = <<>>

C1_Witness ==
  \E r \in Requests :
    /\ Sent(r, 400)
    /\ reqBody[r].t = "str"
    /\ \E q \in Requests : Len(visionCalls[q]) = 1

\* C2: when an upstream call of a request fails, the request ends with a 500
\* of shape {error, details} and no upstream call follows the failure; after
\* a failed vision call the language-model API is never called.
C2_UpstreamFailureIs500 ==
  \A r \in Requests :
    /\ visionReply[r].kind = "fail"
         => /\ Sent(r, 500)
            /\ DOMAIN response[r].body = {"error", "details"}
            /\ Len(visionCalls[r]) = 1
            /\ openaiCalls[r] = <<>>
    /\ openaiReply[r].kind = "fail"
         => /\ Sent(r, 500)
            /\ DOMAIN response[r].body = {"error", "details"}
            /\ Len(visionCalls[r]) = 1
            /\ Len(openaiCalls[r]) = 1

C2_Witness ==
  /\ \E r \in Requests : visionReply[r].kind = "fail" /\ Sent(r, 500)
  /\ \E r \in Requests : openaiReply[r].kind = "fail" /\ Sent(r, 500)

\* C3: when both upstream calls succeed and the completion text is not JSON,
\* the request ends with 200 and aiDecision has status WARNING and
\* rawResponse equal to the completion text.
C3_NonJsonBecomesWarning ==
  \A r \in Requests :
    (HasContent(r) /\ ContentOf(r).t = "str" /\ ContentOf(r).v \in NotJsonTexts)
      => /\ Sent(r, 200)
         /\ LET aiDecision == response[r].body.aiDecision
            IN /\ aiDecision.t = "obj"
               /\ {"status", "rawResponse"} \subseteq DOMAIN aiDecision.v
               /\ aiDecision.v.status = Str(<<"WARNING">>)
               /\ aiDecision.v.rawResponse = ContentOf(r)

C3_Witness ==
  \E r \in Requests :
    /\ Sent(r, 200)
    /\ HasContent(r)
    /\ ContentOf(r) = Str(TTrailing)

\* C4: in every 200 response aiDecision is a decision object whose status is
\* one of NORMAL, WARNING, EMERGENCY, whatever the completion text was.
C4_DecisionAlwaysValid ==
  \A r \in Requests :
    Sent(r, 200)
      => LET aiDecision == response[r].body.aiDecision
         IN /\ aiDecision.t = "obj"
            /\ "status" \in DOMAIN aiDecision.v
            /\ aiDecision.v.status.t = "str"
            /\ aiDecision.v.status.v \in { <<"NORMAL">>, <<"WARNING">>, <<"EMERGENCY">> }

\* C5: computeAdvancedSignals returns fallRisk = true exactly when some
\* person object has width/height > 1.35 (height 1 when zero or absent,
\* width 0 when absent); every reordering of the list gives the same
\* fallRisk, and without persons it is false.
C5_FallRiskIffSomePersonWide ==
  sigResult.kind = "return"
    => LET list == IF sigInput.t = "arr" THEN sigInput.v ELSE <<>>
           n == Len(list)
       IN /\ sigResult.value.fallRisk
               = (\E i \in 1..n : LabelledPerson(list[i]) /\ WiderThanTall(list[i]))
          /\ \A p \in Permutations(1..n) :
               computeAdvancedSignals(Arr([i \in 1..n |-> list[p[i]]])).value.fallRisk
                 = sigResult.value.fallRisk
          /\ (\A i \in 1..n : ~LabelledPerson(list[i])) => ~sigResult.value.fallRisk

C5_Witness ==
  /\ sigResult.kind = "return"
  /\ sigResult.value.fallRisk
  /\ sigInput.t = "arr"
  /\ Len(sigInput.v) = MaxObjs
  /\ \A i \in 1..(MaxObjs - 1) :
       LabelledPerson(sigInput.v[i]) /\ ~WiderThanTall(sigInput.v[i])
  /\ LabelledPerson(sigInput.v[MaxObjs]) /\ WiderThanTall(sigInput.v[MaxObjs])

\* C6: the peopleCount of a 200 response is the number of objects of the
\* vision result whose label contains "person" case-insensitively; when
\* there is none it is 0 and fallRisk is false, whatever the rectangles.
C6_PeopleCountIsPersonCount ==
  \A r \in Requests :
    Sent(r, 200)
      => LET list == ObjectsOf(r)
             count == Cardinality({ i \in 1..Len(list) : LabelledPerson(list[i]) })
         IN /\ response[r].body.peopleCount = count
            /\ count = 0 => /\ response[r].body.peopleCount = 0
                            /\ ~response[r].body.signals.fallRisk

C6_Witness ==
  /\ \E r \in Requests : Sent(r, 200) /\ visionReply[r].value = VSeated
  /\ \E r \in Requests : Sent(r, 200) /\ visionReply[r].value = VNoPerson

\* C7: the signals block of a 200 response has exactly the fields fallRisk
\* and voiceStress, and voiceStress is false.
C7_SignalsBlockShape ==
  \A r \in Requests :
    Sent(r, 200)
      => /\ DOMAIN response[r].body.signals = {"fallRisk", "voiceStress"}
         /\ response[r].body.signals.voiceStress = FALSE

C7_Witness ==
  /\ \E r \in Requests : Sent(r, 200) /\ visionReply[r].value = VBare
  /\ \E r \in Requests : Sent(r, 200) /\ visionReply[r].value = VFloor

\* C8: computeAdvancedSignals never raises a fault, whatever is absent or
\* malformed in its input.
C8_NeverThrows == sigResult.kind # "throw"

\* The scene description the prompt must carry, for each vision result.
ExpectedScene(vision) ==
  CASE vision = VFloor ->
         <<"Caption: ", "A person lying on the floor", "\nPeople detected: ", "1",
           "\nTags: ", "floor", ", ", "indoor">>
    [] vision = VBare ->
         <<"Caption: ", "No caption available", "\nPeople detected: ", "0", "\nTags: ">>
    [] vision = VSeated ->
         <<"Caption: ", "people in a room", "\nPeople detected: ", "1", "\nTags: ", "indoor">>
    [] vision = VLast ->
         <<"Caption: ", "No caption available", "\nPeople detected: ", "2", "\nTags: ">>
    [] vision = VNoPerson ->
         <<"Caption: ", "No caption available", "\nPeople detected: ", "0", "\nTags: ", "sofa">>

\* C9: per request each upstream API is called at most once, and the
\* language-model call is issued only after the vision call returned
\* successfully, with a prompt containing the scene description built from
\* that vision result.
C9_SequentialNoRetry ==
  \A r \in Requests :
    /\ Len(visionCalls[r]) <= 1
    /\ Len(openaiCalls[r]) <= 1
    /\ Len(openaiCalls[r]) = 1
         => /\ Len(visionCalls[r]) = 1
            /\ visionReply[r].kind = "ok"
            /\ includes(openaiCalls[r][1].messages[2].content.v,
                        ExpectedScene(visionReply[r].value))

C9_Witness ==
  \E r \in Requests :
    /\ Len(openaiCalls[r]) = 1
    /\ visionReply[r].value = VFloor
    /\ pc[r] = "done"

\* The response of a request served alone, from its payload and the two
\* replies it received.
ServedAlone(imageBase64, vReply, oReply) ==
  IF MissingImage(imageBase64) THEN badRequestResponse
  ELSE IF BufferFrom(imageBase64).kind = "throw" THEN catchResponse(TypeError)
  ELSE IF vReply.kind = "fail" THEN catchResponse(vReply.value)
  ELSE LET signals == computeAdvancedSignals(OptGet(vReply.value, "objects"))
       IN IF signals.kind = "throw" THEN catchResponse(TypeError)
          ELSE IF oReply.kind = "fail" THEN catchResponse(oReply.value)
          ELSE IF Len(oReply.value.v.choices.v) = 0 THEN catchResponse(TypeError)
          ELSE LET caption == captionOf(vReply.value)
                   tags == tagsOf(vReply.value)
                   peopleCount == signals.value.peopleCount
               IN successResponse(
                    [caption |-> caption, tags |-> tags, signals |-> signals.value,
                     peopleCount |-> peopleCount,
                     sceneDescription |-> sceneDescriptionOf(caption, peopleCount, tags)],
                    aiDecisionOf(oReply.value.v.choices.v[1].v.message.v.content))

\* C10: under every interleaving of the requests, the response to each is the
\* one it would get when served alone: it depends on its own payload and on
\* the replies to its own upstream calls only.
C10_RequestsIsolated ==
  \A r \in Requests :
    pc[r] = "done"
      => LET alone == ServedAlone(reqBody[r], visionReply[r], openaiReply[r])
         IN /\ response[r].status = alone.status
            /\ response[r].body = alone.body

C10_Witness ==
  \E r, q \in Requests :
    /\ r # q
    /\ Sent(r, 200) /\ Sent(q, 200)
    /\ visionReply[r].value = VFloor
    /\ visionReply[q].value = VNoPerson

====
